---- MODULE Spec2Model ----
(***************************************************************************)
(* Model of oracle_anomaly_demo.py: the liquidity-weighted benchmark       *)
(* aggregator, the three anomaly detectors and the per-timestamp loop of   *)
(* run_demo.                                                               *)
(*                                                                         *)
(* Numbers.  Prices, liquidities and timestamps (seconds) are integers.    *)
(* A benchmark is an exact fraction <<numerator, denominator>> with a      *)
(* positive denominator; float("nan") is the pair NaN.  Arithmetic is      *)
(* exact: floating-point rounding is not modelled.                         *)
(*                                                                         *)
(* The series given to run_demo is an input: the pipeline is modelled on   *)
(* every series over small sets of timestamps, prices and liquidities.     *)
(* The venue name of a VenuePoint is never read after generation and is    *)
(* left out.                                                               *)
(***************************************************************************)
EXTENDS Integers, Sequences, FiniteSets

VARIABLES
    pc,                 \* position: "gen", "loop", "done", "error", "call", "ret"
    series,             \* run_demo: the list of VenuePoints
    points_by_ts,       \* run_demo: dict ts -> list of VenuePoints
    sorted_ts,          \* run_demo: sorted(points_by_ts.keys())
    idx,                \* position of the for loop in sorted_ts (1-based)
    benchmark_history,  \* run_demo: the emitted BenchmarkPoints
    rolling_liq,        \* run_demo: total liquidity per processed timestamp
    rolling_benchmarks, \* run_demo: benchmark per processed timestamp
    last_update_ts,     \* run_demo: None or a timestamp
    agg_points,         \* argument of a direct call of the aggregator
    agg_result,         \* its return value
    recent_benchmarks,  \* argument of a direct call of the flash-loan detector
    flash_result        \* its return value

vars == <<pc, series, points_by_ts, sorted_ts, idx, benchmark_history,
          rolling_liq, rolling_benchmarks, last_update_ts,
          agg_points, agg_result, recent_benchmarks, flash_result>>

pipeVars == <<series, points_by_ts, sorted_ts, idx, benchmark_history,
              rolling_liq, rolling_benchmarks, last_update_ts>>

callVars == <<agg_points, agg_result, recent_benchmarks, flash_result>>

(***************************************************************************)
(* Bounds and input sets                                                   *)
(***************************************************************************)
MaxPoints == 3       \* longest series of the pipeline specification
MaxSolo == 4         \* longest series of the single-venue specification
MaxTicks == 10       \* longest series of the warm-up specification
MaxVenues == 3       \* largest observation set given to the aggregator
MaxBench == 4        \* longest list given to the flash-loan detector

PipeTimes == {0, 1, 41}
PipePrices == {100, 106}
PipeLiqs == {0, 1, 2}
TickPrices == {100}
TickLiqs == {1, 2}
AggPrices == {1, 2, 3}
AggLiqs == {-1, 0, 1, 2}

(***************************************************************************)
(* Program constants                                                       *)
(***************************************************************************)
None == -1                      \* last_update_ts = None
NaN == <<0, 0>>                 \* float("nan")
max_staleness_seconds == 40
min_history == 10
quantile_num == 1               \* quantile_threshold = 0.2 = 1/5
quantile_den == 5
spike_threshold_pct == 4
step_seconds == 10

FlashValues == {NaN, <<0, 1>>, <<99, 1>>, <<100, 1>>, <<101, 1>>, <<103, 1>>,
                <<104, 1>>, <<106, 1>>, <<110, 1>>, <<120, 1>>}

(***************************************************************************)
(* Helpers                                                                 *)
(***************************************************************************)
isnan(b) == b = NaN

Abs(x) == IF x < 0 THEN -x ELSE x

VenuePoint(t, p, l) == [ts |-> t, price |-> p, liquidity |-> l]

BenchmarkPoint(t, b, s, th, f) ==
    [ts |-> t, benchmark_price |-> b, staleness_flag |-> s,
     thin_liquidity_flag |-> th, flash_loan_flag |-> f]

RECURSIVE Sum(_)
Sum(s) == IF s = <<>> THEN 0 ELSE Head(s) + Sum(Tail(s))

RECURSIVE Insert(_, _)
Insert(x, s) == IF s = <<>> THEN <<x>>
                ELSE IF x <= Head(s) THEN <<x>> \o s
                ELSE <<Head(s)>> \o Insert(x, Tail(s))

RECURSIVE SortSeq(_)
SortSeq(s) == IF s = <<>> THEN <<>> ELSE Insert(Head(s), SortSeq(Tail(s)))

\* variant: the keys are left in insertion order
sorted_unsorted(keys) == keys

\* sorted(keys): ascending order
sorted(keys) == SortSeq(keys)

\* the keys of points_by_ts, in insertion order
RECURSIVE dict_keys(_)
dict_keys(s) ==
    IF s = <<>> THEN <<>>
    ELSE LET front == dict_keys(SubSeq(s, 1, Len(s) - 1))
             t == s[Len(s)].ts
         IN  IF \E i \in 1..Len(front) : front[i] = t THEN front
             ELSE Append(front, t)

\* variant: points_by_ts[p.ts] = [p], a later point replaces the earlier ones
setdefault_overwrite(s, t) ==
    LET hits == SelectSeq(s, LAMBDA q : q.ts = t)
    IN  <<hits[Len(hits)]>>

\* points_by_ts.setdefault(p.ts, []).append(p) over the series, for key t
setdefault_append(s, t) == SelectSeq(s, LAMBDA q : q.ts = t)

SeqsUpTo(S, n) == UNION {[1..k -> S] : k \in 0..n}

(***************************************************************************)
(* compute_liquidity_weighted_benchmark                                    *)
(***************************************************************************)
\* variant: the guard is liqs.sum() < 0
compute_benchmark_strict_guard(points) ==
    LET prices == [i \in 1..Len(points) |-> points[i].price]
        liqs == [i \in 1..Len(points) |-> points[i].liquidity]
        total == Sum(liqs)
    IN  IF total < 0
        THEN [benchmark |-> NaN, total_liq |-> 0]
        ELSE [benchmark |-> <<Sum([i \in 1..Len(points) |->
                                     liqs[i] * prices[i]]), total>>,
              total_liq |-> total]

\* variant: the weights are 1 / len(points)
compute_benchmark_unweighted(points) ==
    LET prices == [i \in 1..Len(points) |-> points[i].price]
        liqs == [i \in 1..Len(points) |-> points[i].liquidity]
        total == Sum(liqs)
    IN  IF total <= 0
        THEN [benchmark |-> NaN, total_liq |-> 0]
        ELSE [benchmark |-> <<Sum(prices), Len(points)>>, total_liq |-> total]

compute_liquidity_weighted_benchmark(points) ==
    LET prices == [i \in 1..Len(points) |-> points[i].price]
        liqs == [i \in 1..Len(points) |-> points[i].liquidity]
        total == Sum(liqs)
    IN  IF total <= 0
        THEN [benchmark |-> NaN, total_liq |-> 0]
        ELSE LET weights == [i \in 1..Len(points) |-> <<liqs[i], total>>]
                 weighted == [i \in 1..Len(points) |->
                                 <<weights[i][1] * prices[i], weights[i][2]>>]
                 numer == Sum([i \in 1..Len(points) |-> weighted[i][1]])
             IN  [benchmark |-> <<numer, total>>, total_liq |-> total]

(***************************************************************************)
(* detect_staleness                                                        *)
(***************************************************************************)
\* variant: >= instead of >
detect_staleness_inclusive(current_ts, last_ts, max_staleness) ==
    (current_ts - last_ts) >= max_staleness

detect_staleness(current_ts, last_ts, max_staleness) ==
    (current_ts - last_ts) > max_staleness

(***************************************************************************)
(* detect_thin_liquidity; np.quantile with linear interpolation.           *)
(* QuantileTimesDen is qd times the qn/qd quantile of the samples.         *)
(***************************************************************************)
QuantileTimesDen(samples, qn, qd) ==
    LET s == SortSeq(samples)
        n == Len(s)
        j == ((n - 1) * qn) \div qd
        r == ((n - 1) * qn) % qd
    IN  IF r = 0 THEN qd * s[j + 1]
        ELSE qd * s[j + 1] + r * (s[j + 2] - s[j + 1])

\* variant: the cold-start guard is one sample short
detect_thin_liquidity_early(total_liquidity, rolling_liquidity, qn, qd) ==
    IF Len(rolling_liquidity) < min_history - 1
    THEN FALSE
    ELSE total_liquidity * qd < QuantileTimesDen(rolling_liquidity, qn, qd)

detect_thin_liquidity(total_liquidity, rolling_liquidity, qn, qd) ==
    IF Len(rolling_liquidity) < min_history
    THEN FALSE
    ELSE total_liquidity * qd < QuantileTimesDen(rolling_liquidity, qn, qd)

(***************************************************************************)
(* detect_flash_loan_pattern                                               *)
(***************************************************************************)
LastThree(rb) == SubSeq(rb, Len(rb) - 2, Len(rb))

\* variant: abs(jump_pct) < threshold, for prev_prev > 0
JumpBelow_symmetric(prev_prev, current, threshold) ==
    LET d == current[1] * prev_prev[2] - prev_prev[1] * current[2]
    IN  100 * Abs(d) < threshold * current[2] * prev_prev[1]

\* jump_pct < threshold, jump_pct = (current - prev_prev) / prev_prev * 100
JumpBelow(prev_prev, current, threshold) ==
    LET d == current[1] * prev_prev[2] - prev_prev[1] * current[2]
    IN  IF prev_prev[1] > 0
        THEN 100 * d < threshold * current[2] * prev_prev[1]
        ELSE 100 * d > threshold * current[2] * prev_prev[1]

\* abs(x - base) < abs(y - base)
CloserTo(base, x, y) ==
    Abs(x[1] * base[2] - base[1] * x[2]) * y[2]
        < Abs(y[1] * base[2] - base[1] * y[2]) * x[2]

\* the division by prev_prev raises ZeroDivisionError
FlashRaises(rb) ==
    /\ Len(rb) >= 3
    /\ \A k \in 1..3 : ~isnan(LastThree(rb)[k])
    /\ LastThree(rb)[1][1] = 0

\* variant: NaN readings are dropped before the last three are taken
detect_flash_loan_pattern_skip_nan(rb, threshold) ==
    LET valid == SelectSeq(rb, LAMBDA b : ~isnan(b))
    IN  IF Len(valid) < 3 THEN FALSE
        ELSE LET prev_prev == LastThree(valid)[1]
                 prev == LastThree(valid)[2]
                 current == LastThree(valid)[3]
             IN  IF JumpBelow(prev_prev, current, threshold) THEN FALSE
                 ELSE CloserTo(prev_prev, prev, current)

detect_flash_loan_pattern(rb, threshold) ==
    IF Len(rb) < 3 THEN FALSE
    ELSE LET prev_prev == LastThree(rb)[1]
             prev == LastThree(rb)[2]
             current == LastThree(rb)[3]
         IN  IF isnan(prev_prev) \/ isnan(prev) \/ isnan(current) THEN FALSE
             ELSE IF JumpBelow(prev_prev, current, threshold) THEN FALSE
             ELSE CloserTo(prev_prev, prev, current)

(***************************************************************************)
(* run_demo                                                                *)
(***************************************************************************)
InitPipe ==
    /\ series = <<>>
    /\ points_by_ts = [t \in {} |-> <<>>]
    /\ sorted_ts = <<>>
    /\ idx = 1
    /\ benchmark_history = <<>>
    /\ rolling_liq = <<>>
    /\ rolling_benchmarks = <<>>
    /\ last_update_ts = None

InitCall ==
    /\ agg_points = <<>>
    /\ agg_result = [benchmark |-> NaN, total_liq |-> 0]
    /\ recent_benchmarks = <<>>
    /\ flash_result = FALSE

\* the caller's series grows by one VenuePoint
Generate(t, p, l) ==
    /\ pc = "gen"
    /\ series' = Append(series, VenuePoint(t, p, l))
    /\ UNCHANGED <<pc, points_by_ts, sorted_ts, idx, benchmark_history,
                   rolling_liq, rolling_benchmarks, last_update_ts>>
    /\ UNCHANGED callVars

GenerateAny ==
    /\ Len(series) < MaxPoints
    /\ \E t \in PipeTimes, p \in PipePrices, l \in PipeLiqs : Generate(t, p, l)

\* generate_synthetic_series spaces its timestamps step_seconds apart
GenerateTick ==
    /\ Len(series) < MaxTicks
    /\ \E p \in TickPrices, l \in TickLiqs :
           Generate(step_seconds * Len(series), p, l)

\* group by timestamp, sort the keys, initialise the loop state
Group ==
    /\ pc = "gen"
    /\ LET keys == dict_keys(series)
       IN  /\ points_by_ts' = [t \in {keys[i] : i \in 1..Len(keys)} |->
                                  setdefault_append(series, t)]
           /\ sorted_ts' = sorted(keys)
    /\ benchmark_history' = <<>>
    /\ rolling_liq' = <<>>
    /\ rolling_benchmarks' = <<>>
    /\ last_update_ts' = None
    /\ idx' = 1
    /\ pc' = "loop"
    /\ UNCHANGED series
    /\ UNCHANGED callVars

\* one iteration of `for ts in sorted_ts`
Step ==
    /\ pc = "loop"
    /\ idx <= Len(sorted_ts)
    /\ LET ts == sorted_ts[idx]
           venue_points == points_by_ts[ts]
           agg == compute_liquidity_weighted_benchmark(venue_points)
           benchmark_price == agg.benchmark
           total_liq == agg.total_liq
           seeded == IF last_update_ts = None THEN ts ELSE last_update_ts
           staleness_flag == detect_staleness(ts, seeded, max_staleness_seconds)
           liq2 == Append(rolling_liq, total_liq)
           thin_liq_flag == detect_thin_liquidity(total_liq, liq2,
                                                  quantile_num, quantile_den)
           bench2 == Append(rolling_benchmarks, benchmark_price)
       IN  /\ rolling_liq' = liq2
           /\ rolling_benchmarks' = bench2
           /\ IF FlashRaises(bench2)
              THEN /\ pc' = "error"
                   /\ last_update_ts' = seeded
                   /\ UNCHANGED <<benchmark_history, idx>>
              ELSE /\ last_update_ts' = IF ~isnan(benchmark_price) THEN ts
                                        ELSE seeded
                   /\ benchmark_history' = Append(benchmark_history,
                          BenchmarkPoint(ts, benchmark_price, staleness_flag,
                              thin_liq_flag,
                              detect_flash_loan_pattern(bench2,
                                                        spike_threshold_pct)))
                   /\ idx' = idx + 1
                   /\ pc' = "loop"
    /\ UNCHANGED <<series, points_by_ts, sorted_ts>>
    /\ UNCHANGED callVars

\* sorted_ts is exhausted: the summary is printed
Finish ==
    /\ pc = "loop"
    /\ idx > Len(sorted_ts)
    /\ pc' = "done"
    /\ UNCHANGED pipeVars
    /\ UNCHANGED callVars

Init == pc = "gen" /\ InitPipe /\ InitCall

Next == GenerateAny \/ Group \/ Step \/ Finish

Spec == Init /\ [][Next]_vars

\* one venue per timestamp, timestamps step_seconds apart
GenerateSolo ==
    /\ Len(series) < MaxSolo
    /\ \E p \in PipePrices, l \in PipeLiqs :
           Generate(step_seconds * Len(series), p, l)

\* the pipeline on a series of up to MaxSolo single-venue timestamps
NextSolo == GenerateSolo \/ Group \/ Step \/ Finish

SpecSolo == Init /\ [][NextSolo]_vars

\* the pipeline on a series of up to MaxTicks equally spaced timestamps
NextTick == GenerateTick \/ Group \/ Step \/ Finish

SpecTick == Init /\ [][NextTick]_vars

(***************************************************************************)
(* Direct calls of the aggregator and of the flash-loan detector           *)
(***************************************************************************)
AggInputs == SeqsUpTo({VenuePoint(0, p, l) : p \in AggPrices, l \in AggLiqs},
                      MaxVenues)

InitAgg ==
    /\ pc = "call"
    /\ InitPipe
    /\ agg_points \in AggInputs
    /\ agg_result = [benchmark |-> NaN, total_liq |-> 0]
    /\ recent_benchmarks = <<>>
    /\ flash_result = FALSE

CallAggregator ==
    /\ pc = "call"
    /\ agg_result' = compute_liquidity_weighted_benchmark(agg_points)
    /\ pc' = "ret"
    /\ UNCHANGED <<agg_points, recent_benchmarks, flash_result>>
    /\ UNCHANGED pipeVars

SpecAgg == InitAgg /\ [][CallAggregator]_vars

InitFlash ==
    /\ pc = "call"
    /\ InitPipe
    /\ agg_points = <<>>
    /\ agg_result = [benchmark |-> NaN, total_liq |-> 0]
    /\ recent_benchmarks \in SeqsUpTo(FlashValues, MaxBench)
    /\ flash_result = FALSE

CallFlash ==
    /\ pc = "call"
    /\ IF FlashRaises(recent_benchmarks)
       THEN pc' = "error" /\ UNCHANGED flash_result
       ELSE /\ pc' = "ret"
            /\ flash_result' = detect_flash_loan_pattern(recent_benchmarks,
                                                         spike_threshold_pct)
    /\ UNCHANGED <<agg_points, agg_result, recent_benchmarks>>
    /\ UNCHANGED pipeVars

SpecFlash == InitFlash /\ [][CallFlash]_vars

(***************************************************************************)
(* Properties                                                              *)
(***************************************************************************)
Records == 1..Len(benchmark_history)

TsOfSeries == {series[i].ts : i \in 1..Len(series)}

\* the series presents a timestamp smaller than the one before it
OutOfOrder == \E i \in 2..Len(series) : series[i].ts < series[i - 1].ts

\* b = p for a benchmark b and an integer p
BenchEq(b, p) == b[2] > 0 /\ b[1] = p * b[2]

\* C1: last_update_ts is None or the timestamp of an emitted record whose
\* benchmark is a number, so a first group with a NaN benchmark never sets it.
C1_LastUpdateIsValid ==
    \/ last_update_ts = None
    \/ \E k \in Records :
           /\ benchmark_history[k].ts = last_update_ts
           /\ ~isnan(benchmark_history[k].benchmark_price)

\* C2 (as stated): once the series presents a timestamp smaller than its
\* predecessor, records exist only for the timestamps presented before it.
C2_RejectsOutOfOrder ==
    \A i \in 2..Len(series) :
        ( /\ series[i].ts < series[i - 1].ts
          /\ \A h \in 2..(i - 1) : series[h].ts >= series[h - 1].ts )
        => \A k \in Records :
               benchmark_history[k].ts \in {series[h].ts : h \in 1..(i - 1)}

\* C2 (amended): an out-of-order series is not rejected; the run completes
\* with a record for every timestamp of the series, the out-of-order ones
\* included, and the records are reordered into ascending timestamps.
C2_ReordersOutOfOrder ==
    OutOfOrder =>
        /\ pc # "error"
        /\ \A k \in Records : \A m \in Records :
               k < m => benchmark_history[k].ts < benchmark_history[m].ts
        /\ pc = "done" =>
               \A t \in TsOfSeries : \E k \in Records :
                   benchmark_history[k].ts = t

C2_Witness ==
    /\ pc = "done"
    /\ Len(series) = 2
    /\ series[2].ts < series[1].ts
    /\ Len(benchmark_history) = 2
    /\ benchmark_history[1].ts = series[2].ts

\* C3: the record appended by a step is flagged stale iff its timestamp
\* minus the value last_update_ts had before the step (the timestamp itself
\* when it was None) exceeds 40; the first record is never flagged.
C3_StalenessAgainstPrevious ==
    [][Len(benchmark_history') = Len(benchmark_history) + 1 =>
        LET rec == benchmark_history'[Len(benchmark_history')]
            L == IF last_update_ts = None THEN rec.ts ELSE last_update_ts
        IN  /\ rec.staleness_flag = (rec.ts - L > 40)
            /\ Len(benchmark_history) = 0 => ~rec.staleness_flag]_vars

\* a gap of 41 s behind a NaN benchmark is flagged, on a NaN record, while
\* the gap of 40 s to the record before it is not
C3_Witness ==
    /\ Len(benchmark_history) = 3
    /\ benchmark_history[1].ts = 0
    /\ ~isnan(benchmark_history[1].benchmark_price)
    /\ isnan(benchmark_history[2].benchmark_price)
    /\ isnan(benchmark_history[3].benchmark_price)
    /\ benchmark_history[3].ts = 41
    /\ benchmark_history[3].staleness_flag
    /\ ~benchmark_history[2].staleness_flag

Liqs(points) == [i \in 1..Len(points) |-> points[i].liquidity]

\* C4: a liquidity sum <= 0 (the empty set included) returns (NaN, 0);
\* any other sum returns a number together with that sum.
C4_SentinelIffNonPositive ==
    pc = "ret" =>
        IF Sum(Liqs(agg_points)) <= 0
        THEN agg_result = [benchmark |-> NaN, total_liq |-> 0]
        ELSE /\ ~isnan(agg_result.benchmark)
             /\ agg_result.benchmark[2] # 0
             /\ agg_result.total_liq = Sum(Liqs(agg_points))

C4_Witness ==
    /\ pc = "ret"
    /\ Len(agg_points) = 2
    /\ agg_points[1].liquidity = 1
    /\ agg_points[2].liquidity = -1
    /\ isnan(agg_result.benchmark)

\* C5: an observation set with a negative liquidity returns (NaN, 0).
C5_NegativeLiquidityIsSentinel ==
    (pc = "ret" /\ \E i \in 1..Len(agg_points) : agg_points[i].liquidity < 0)
        => agg_result = [benchmark |-> NaN, total_liq |-> 0]

C6_OneRecordPerTimestamp ==
    /\ [](/\ \A k \in Records : \A m \in Records :
                k < m => benchmark_history[k].ts < benchmark_history[m].ts
          /\ \A k \in Records :
                benchmark_history[k].benchmark_price =
                    compute_liquidity_weighted_benchmark(
                        SelectSeq(series, LAMBDA q :
                            q.ts = benchmark_history[k].ts)).benchmark
          /\ pc = "done" =>
                /\ Len(benchmark_history) = Cardinality(TsOfSeries)
                /\ \A t \in TsOfSeries :
                       Cardinality({k \in Records :
                                       benchmark_history[k].ts = t}) = 1)
    /\ [][/\ Len(benchmark_history') >= Len(benchmark_history)
          /\ \A k \in Records : benchmark_history'[k] = benchmark_history[k]]_vars

\* two venues at timestamp 1 and one at timestamp 0 give two records
C6_Witness ==
    /\ pc = "done"
    /\ Len(series) = 3
    /\ series[1].ts = 1 /\ series[2].ts = 0 /\ series[3].ts = 1
    /\ series[1].price # series[3].price
    /\ series[1].liquidity = 1 /\ series[3].liquidity = 1
    /\ Len(benchmark_history) = 2
    /\ benchmark_history[2].ts = 1
    /\ benchmark_history[2].benchmark_price[1]
           = 103 * benchmark_history[2].benchmark_price[2]

\* C7: a record is not flagged flash-loan when it is the first or second
\* record or when one of the three latest benchmarks is NaN.
C7_FlashNeedsThreeNumbers ==
    \A k \in Records :
        ( \/ k < 3
          \/ \E m \in (k - 2)..k : isnan(rolling_benchmarks[m]) )
        => ~benchmark_history[k].flash_loan_flag

\* (100, 100, NaN, 106): the second and the fourth record are not flagged
C7_Witness ==
    /\ Len(benchmark_history) = 4
    /\ BenchEq(rolling_benchmarks[1], 100)
    /\ BenchEq(rolling_benchmarks[2], 100)
    /\ isnan(rolling_benchmarks[3])
    /\ BenchEq(rolling_benchmarks[4], 106)
    /\ ~benchmark_history[2].flash_loan_flag
    /\ ~benchmark_history[4].flash_loan_flag

\* C8: for numbers b0 > 0, b1, b2 the detector returns true iff
\* (b2 - b0) / b0 * 100 >= 4 and |b1 - b0| < |b2 - b0|; a move with
\* b2 <= b0 is never flagged; (100, 101, 106) and (100, 110, 120) are
\* flagged, (100, 99, 101) is not.  The values of FlashValues are integers.
C8_DirectionalJump ==
    ( /\ pc = "ret"
      /\ Len(recent_benchmarks) >= 3
      /\ \A k \in 1..3 : ~isnan(LastThree(recent_benchmarks)[k])
      /\ LastThree(recent_benchmarks)[1][1] > 0 )
    => LET b0 == LastThree(recent_benchmarks)[1][1]
           b1 == LastThree(recent_benchmarks)[2][1]
           b2 == LastThree(recent_benchmarks)[3][1]
       IN  /\ flash_result =
                  (100 * (b2 - b0) >= 4 * b0 /\ Abs(b1 - b0) < Abs(b2 - b0))
           /\ b2 <= b0 => ~flash_result
           /\ <<b0, b1, b2>> = <<100, 101, 106>> => flash_result
           /\ <<b0, b1, b2>> = <<100, 110, 120>> => flash_result
           /\ <<b0, b1, b2>> = <<100, 99, 101>> => ~flash_result

\* the longer list (99, 100, 110, 120) is flagged on its last three values
C8_Witness ==
    /\ pc = "ret"
    /\ recent_benchmarks = <<<<99, 1>>, <<100, 1>>, <<110, 1>>, <<120, 1>>>>
    /\ flash_result

\* C9: with fewer than 10 samples detect_thin_liquidity is false for every
\* current liquidity, and the first 9 records are not flagged thin.
C9_ThinNeedsTenSamples ==
    /\ Len(rolling_liq) < 10 =>
           \A cur \in {-1, 0, 1, 2} :
               ~detect_thin_liquidity(cur, rolling_liq,
                                      quantile_num, quantile_den)
    /\ \A k \in Records :
           k < 10 => ~benchmark_history[k].thin_liquidity_flag

\* the 10th record is flagged
C9_Witness ==
    /\ Len(benchmark_history) = 10
    /\ benchmark_history[10].thin_liquidity_flag

====
